---- MODULE Spec2Model ----
(***************************************************************************)
(* The three request-interception tools of src/tools/extended.ts          *)
(* (browser_mock_api, browser_clear_mock_api, browser_set_headers) run    *)
(* against one browser page.                                               *)
(*                                                                         *)
(* State: the page's routing table (newest registration first), the       *)
(* page's extra-header set, the page calls that have been issued and not  *)
(* yet settled (with the handler suspended at each awaited one), and the  *)
(* observable output of the last step (a tool result, an answered         *)
(* request, a rejection nobody awaits).  The handlers order nothing       *)
(* between calls: pending page calls settle in any order.                 *)
(*                                                                         *)
(* A handler suspended at `await context.ensureTab()` has read and        *)
(* written nothing: a call enters the state in the step in which its      *)
(* handler resumes, so the order of these steps is the order in which     *)
(* concurrent calls reach the page, whatever the order they were made in. *)
(* `registered` and `lastHeaders` record the calls made, for the claims.  *)
(*                                                                         *)
(* An optional JavaScript value is a sequence: <<>> is undefined, <<v>>   *)
(* is the value v.  A status is [whole, half], the number whole + half/2, *)
(* so that the schema's range check is decided on numbers that are not    *)
(* integers too.                                                           *)
(***************************************************************************)
EXTENDS Integers, Sequences, FiniteSets, TLC

\* ------------------------------------------------------------- bounds
MaxRoutes == 2
MaxPending == 2

\* ----------------------------------------------------- values and inputs
None == <<>>
Some(v) == <<v>>

MOCK == "browser_mock_api"
CLEAR == "browser_clear_mock_api"
HEADERS == "browser_set_headers"

Verbs == {"GET", "POST", "PUT", "DELETE", "PATCH", "HEAD", "OPTIONS"}
StatusMin == 100
StatusMax == 599
StatusDefault == 200
ContentTypeDefault == "application/json"

Num(w, h) == [whole |-> w, half |-> h]

EmptyMap == [k \in {} |-> ""]
HeaderMaps == {EmptyMap,
               "Authorization" :> "Bearer token",
               "X-Custom-Header" :> "value"}

UsersUrl == "/api/users"
OtherUrl == "/api/x"
Body == "{\"ok\":true}"

MockInput(u, m, s, b, h) ==
    [url |-> u, method |-> m, status |-> s, contentType |-> None,
     body |-> b, headers |-> h]

\* Inputs the schema accepts: a literal pattern with the method given or
\* not, the status defaulted, at either end of its range or not an integer,
\* extra response headers given or not; and the empty pattern.
MockArgsAccepted ==
    {MockInput(Some(UsersUrl), None, None, Some(Body), None),
     MockInput(Some(UsersUrl), Some("GET"), None, Some(Body), None),
     MockInput(Some(UsersUrl), Some("GET"), Some(Num(100, FALSE)), Some(Body), None),
     MockInput(Some(UsersUrl), Some("GET"), Some(Num(599, FALSE)), Some(Body),
               Some("X-Custom-Header" :> "value")),
     MockInput(Some(UsersUrl), Some("GET"), Some(Num(200, TRUE)), Some(Body), None),
     MockInput(Some(""), Some("GET"), None, Some(Body), None)}

\* Inputs with one offending field each.
MockArgsOther ==
    {MockInput(Some(UsersUrl), Some("GET"), Some(Num(99, TRUE)), Some(Body), None),
     MockInput(Some(UsersUrl), Some("GET"), Some(Num(599, TRUE)), Some(Body), None),
     MockInput(Some(UsersUrl), Some("GET"), Some(Num(600, FALSE)), Some(Body), None),
     MockInput(Some(UsersUrl), Some("TRACE"), None, Some(Body), None),
     MockInput(Some(UsersUrl), Some("GET"), None, None, None),
     MockInput(None, Some("GET"), None, Some(Body), None)}

MockArgs == MockArgsAccepted \cup MockArgsOther
ClearArgs == {[url |-> u] : u \in {None, Some(UsersUrl), Some(OtherUrl), Some("")}}
HeadersArgs == {[headers |-> Some(h)] : h \in HeaderMaps} \cup {[headers |-> None]}

RequestUrls == {UsersUrl, OtherUrl}
RequestMethods == {"GET", "POST"}

VARIABLES routes, extraHeaders, pending, event, lastHeaders, registered

vars == <<routes, extraHeaders, pending, event, lastHeaders, registered>>

\* ------------------------------------------------------------ schemas
\* n >= k and n <= k for a status n = whole + half/2 and an integer k.
AtLeast(n, k) == 2 * n.whole + (IF n.half THEN 1 ELSE 0) >= 2 * k
AtMost(n, k) == 2 * n.whole + (IF n.half THEN 1 ELSE 0) <= 2 * k

\* z.string(): a string, the empty one included; required.
UrlIssue(a) == a.url = None

\* z.enum([...]).optional()
MethodIssue(a) == a.method /= None /\ a.method[1] \notin Verbs

\* z.number().min(100).max(599).default(200): any number in the range.
StatusIssue(a) ==
    a.status /= None /\ ~(AtLeast(a.status[1], StatusMin) /\ AtMost(a.status[1], StatusMax))

\* z.string(); required.
BodyIssue(a) == a.body = None

\* The fields of a browser_mock_api input that the schema refuses.
mockApiIssues(a) ==
    {f \in {"url", "method", "status", "body"} :
        \/ f = "url" /\ UrlIssue(a)
        \/ f = "method" /\ MethodIssue(a)
        \/ f = "status" /\ StatusIssue(a)
        \/ f = "body" /\ BodyIssue(a)}

\* The parsed input: required fields unwrapped, defaults filled in.
mockApiParse(a) ==
    [url |-> a.url[1],
     method |-> a.method,
     status |-> IF a.status = None THEN Num(StatusDefault, FALSE) ELSE a.status[1],
     contentType |-> IF a.contentType = None THEN ContentTypeDefault ELSE a.contentType[1],
     body |-> a.body[1],
     headers |-> a.headers]

\* browser_clear_mock_api: url is z.string(), with no .optional().
clearMockApiIssues(a) == IF a.url = None THEN {"url"} ELSE {}

\* browser_set_headers: headers is z.record(z.string()), required.
setHeadersIssues(a) == IF a.headers = None THEN {"headers"} ELSE {}

Issues(tool, a) ==
    CASE tool = MOCK -> mockApiIssues(a)
      [] tool = CLEAR -> clearMockApiIssues(a)
      [] tool = HEADERS -> setHeadersIssues(a)

Parse(tool, a) ==
    CASE tool = MOCK -> mockApiParse(a)
      [] tool = CLEAR -> [url |-> a.url]
      [] tool = HEADERS -> [headers |-> a.headers[1]]

ToolArgs(tool) ==
    CASE tool = MOCK -> MockArgs
      [] tool = CLEAR -> ClearArgs
      [] tool = HEADERS -> HeadersArgs

\* ---------------------------------------------------------- transcripts
\* A line of the emitted transcript is a sequence of string fragments; a
\* template literal's ${...} is a fragment of its own.
Digit(d) ==
    CASE d = 0 -> "0" [] d = 1 -> "1" [] d = 2 -> "2" [] d = 3 -> "3" [] d = 4 -> "4"
      [] d = 5 -> "5" [] d = 6 -> "6" [] d = 7 -> "7" [] d = 8 -> "8" [] d = 9 -> "9"

RECURSIVE Digits(_)
Digits(n) == IF n < 10 THEN <<Digit(n)>> ELSE Digits(n \div 10) \o <<Digit(n % 10)>>

\* `${number}`
NumText(n) == Digits(n.whole) \o (IF n.half THEN <<".5">> ELSE <<>>)

\* `${value}` of an optional string: undefined prints as "undefined".
Interp(o) == IF o = None THEN "undefined" ELSE o[1]

\* JSON.stringify of a string map (keys in the order CHOOSE picks them; the
\* maps stringified here hold at most one key).
RECURSIVE JSONEntries(_, _)
JSONEntries(m, keys) ==
    IF keys = {} THEN <<>>
    ELSE LET k == CHOOSE x \in keys : TRUE
         IN <<"\"", k, "\":\"", m[k], "\"">>
            \o (IF keys = {k} THEN <<>> ELSE <<",">>)
            \o JSONEntries(m, keys \ {k})

JSONStringify(m) == <<"{">> \o JSONEntries(m, DOMAIN m) \o <<"}">>

mockApiCode(params) ==
    << <<"// Mock API response for ", params.url>>,
       <<"await page.route('", params.url, "', (route, request) => {">>,
       <<"  if (route.request().method() === '", Interp(params.method), "') {">>,
       <<"  route.fulfill({">>,
       <<"    status: ">> \o NumText(params.status) \o <<",">>,
       <<"    contentType: '", params.contentType, "',">>,
       <<"    body: '", params.body, "',">>,
       <<"    headers: {">>,
       <<"      ...">>
          \o JSONStringify(IF params.headers = None THEN EmptyMap ELSE params.headers[1])
          \o <<",">>,
       <<"    },">>,
       <<"  });">>,
       <<"  } else {">>,
       <<"    route.continue();">>,
       <<"  }">>,
       <<"});">> >>

clearMockApiCode(params) ==
    << <<"// Clear Mock API response for ", Interp(params.url)>>,
       <<"await page.unroute('", Interp(params.url), "');">> >>

setHeadersCode(params) ==
    << <<"// Set Extra HTTP Headers">>,
       <<"await page.setExtraHTTPHeaders(">> \o JSONStringify(params.headers) \o <<");">> >>

\* What a handler returns: the transcript and the two flags.
ToolResult(code) == [code |-> code, captureSnapshot |-> FALSE, waitForNetwork |-> FALSE]

\* ------------------------------------------------------------- the page
Patterns == {UsersUrl, OtherUrl, ""}

\* Variants of the page calls and of the interceptor, each differing from
\* the definition it precedes by one plausible slip.
PageRouteAppends(rs, rule) == rs \o <<rule>>
PageUnrouteAll(rs, url) == <<>>
PageSetExtraHTTPHeadersMerges(old, new) ==
    [k \in DOMAIN old \cup DOMAIN new |-> IF k \in DOMAIN new THEN new[k] ELSE old[k]]
RouteHandlerIgnoresMethod(params, reqMethod) ==
    [kind |-> "fulfill",
     status |-> params.status,
     contentType |-> params.contentType,
     body |-> params.body,
     headers |-> params.headers]

\* page.route(url, handler): the new registration goes in front of the
\* table; registrations of the same url stay behind it.
PageRoute(rs, rule) == <<rule>> \o rs

\* page.unroute(url), no handler given: every registration of that url goes.
PageUnroute(rs, url) == SelectSeq(rs, LAMBDA r : r.url /= url)

\* page.setExtraHTTPHeaders(headers): the set is replaced.
PageSetExtraHTTPHeaders(old, new) == new

\* Whether a registration's url pattern matches a request's url: the empty
\* pattern matches every url, any other pattern here is a literal url.
UrlMatches(pattern, url) == pattern = "" \/ pattern = url

\* The interceptor registerMock installs (lines 47-58), run on a request.
RouteHandler(params, reqMethod) ==
    IF Some(reqMethod) = params.method
    THEN [kind |-> "fulfill",
          status |-> params.status,
          contentType |-> params.contentType,
          body |-> params.body,
          headers |-> params.headers]
    ELSE [kind |-> "continue"]

\* The page answering a request: the matching registrations are tried from
\* the front of the table; a handler that fulfils or continues the request
\* ends it, one that falls back hands it to the next registration, and a
\* request nothing ends goes to the network.
RECURSIVE Dispatch(_, _, _)
Dispatch(rs, url, reqMethod) ==
    IF rs = <<>> THEN [ran |-> <<>>, outcome |-> [kind |-> "continue"]]
    ELSE IF ~UrlMatches(Head(rs).url, url) THEN Dispatch(Tail(rs), url, reqMethod)
    ELSE LET out == RouteHandler(Head(rs), reqMethod)
         IN IF out.kind = "fallback"
            THEN LET rest == Dispatch(Tail(rs), url, reqMethod)
                 IN [ran |-> <<Head(rs)>> \o rest.ran, outcome |-> rest.outcome]
            ELSE [ran |-> <<Head(rs)>>, outcome |-> out]

\* `if (params.url)`: undefined and the empty string are falsy.
Truthy(o) == o /= None /\ o[1] /= ""

\* ------------------------------------------------------------ the state
NoEvent == [kind |-> "none", cause |-> "none"]

\* The output of a step (a result or an error for its caller, a response
\* for the page) reaches its receiver before the next callback runs.
Delivered == event = NoEvent

\* The pending calls without the i-th, which has settled.
Remove(q, i) == SubSeq(q, 1, i - 1) \o SubSeq(q, i + 1, Len(q))

\* A call's end as its caller sees it: the value returned, or the error and
\* the call that caused it.
ResultEvent(tool, a, result, value, cause) ==
    [kind |-> "result", tool |-> tool, args |-> a, result |-> result,
     value |-> value, cause |-> cause]

Count(rs, url) == Len(SelectSeq(rs, LAMBDA r : r.url = url))

Init ==
    /\ routes = <<>>
    /\ extraHeaders = EmptyMap
    /\ pending = <<>>
    /\ event = NoEvent
    /\ lastHeaders = EmptyMap
    /\ registered = [p \in Patterns |-> <<>>]

\* --------------------------------------------------------- tool calls
\* The dispatcher parses a call's input against the tool's schema and runs
\* the handler on the parsed input only.
Accepted(tool, a) == Issues(tool, a) = {}

\* A refused input ends the call in a validation error naming the fields.
Refuse(tool, a) ==
    /\ Delivered
    /\ ~Accepted(tool, a)
    /\ event' = ResultEvent(tool, a, "validation_error", Issues(tool, a), "none")
    /\ UNCHANGED <<routes, extraHeaders, pending, lastHeaders, registered>>

\* `await context.ensureTab()` rejects: the handler ends in that error.
EnsureTabFails(tool, a) ==
    /\ Delivered
    /\ Accepted(tool, a)
    /\ event' = ResultEvent(tool, a, "error", <<>>, "ensureTab")
    /\ UNCHANGED <<routes, extraHeaders, pending, lastHeaders, registered>>

\* mockApi.handle, ensureTab resolved: page.route is called and not awaited,
\* so the handler returns its transcript at once and the route call's own
\* outcome is left pending.
mockApiHandle(a) ==
    /\ Delivered
    /\ Accepted(MOCK, a)
    /\ Len(routes) < MaxRoutes
    /\ Len(pending) < MaxPending
    /\ LET params == Parse(MOCK, a) IN
        /\ routes' = PageRoute(routes, params)
        /\ registered' = [registered EXCEPT ![params.url] = Append(@, params)]
        /\ pending' = Append(pending, [call |-> "route", tool |-> MOCK, returned |-> "ok"])
        /\ event' = ResultEvent(MOCK, a, "ok", ToolResult(mockApiCode(params)), "none")
    /\ UNCHANGED <<extraHeaders, lastHeaders>>

\* clearMockApi.handle, ensureTab resolved: with a truthy url, page.unroute
\* is called and awaited; otherwise the handler returns.
clearMockApiHandle(a) ==
    /\ Delivered
    /\ Accepted(CLEAR, a)
    /\ LET params == Parse(CLEAR, a) IN
       IF Truthy(params.url)
       THEN /\ Len(pending) < MaxPending
            /\ routes' = PageUnroute(routes, params.url[1])
            /\ registered' = [registered EXCEPT ![params.url[1]] = <<>>]
            /\ pending' = Append(pending, [call |-> "unroute", tool |-> CLEAR,
                                           args |-> a, params |-> params])
            /\ event' = NoEvent
       ELSE /\ event' = ResultEvent(CLEAR, a, "ok", ToolResult(clearMockApiCode(params)), "none")
            /\ UNCHANGED <<routes, registered, pending>>
    /\ UNCHANGED <<extraHeaders, lastHeaders>>

\* setHeaders.handle, ensureTab resolved: page.setExtraHTTPHeaders is called
\* and awaited.
setHeadersHandle(a) ==
    /\ Delivered
    /\ Accepted(HEADERS, a)
    /\ Len(pending) < MaxPending
    /\ pending' = Append(pending, [call |-> "setExtraHTTPHeaders", tool |-> HEADERS,
                                   args |-> a, params |-> Parse(HEADERS, a)])
    /\ event' = NoEvent
    /\ UNCHANGED <<routes, extraHeaders, lastHeaders, registered>>

\* ------------------------------------------- page calls settling
\* The route call of a handler that has already returned settles: nothing
\* awaits it, so a rejection reaches no caller.
RouteSettles(ok) ==
    /\ Delivered
    /\ \E i \in 1..Len(pending) :
        /\ pending[i].call = "route"
        /\ pending' = Remove(pending, i)
        /\ event' = IF ok THEN NoEvent
                    ELSE [kind |-> "unhandledRejection", tool |-> MOCK,
                          result |-> pending[i].returned, cause |-> "route"]
    /\ UNCHANGED <<routes, extraHeaders, lastHeaders, registered>>

\* The awaited unroute settles: clearMockApi.handle returns its transcript,
\* or ends in the call's error.
UnrouteSettles(ok) ==
    /\ Delivered
    /\ \E i \in 1..Len(pending) :
        /\ pending[i].call = "unroute"
        /\ LET c == pending[i] IN
            event' = IF ok
                     THEN ResultEvent(CLEAR, c.args, "ok", ToolResult(clearMockApiCode(c.params)), "none")
                     ELSE ResultEvent(CLEAR, c.args, "error", <<>>, "unroute")
        /\ pending' = Remove(pending, i)
    /\ UNCHANGED <<routes, extraHeaders, lastHeaders, registered>>

\* The awaited setExtraHTTPHeaders settles: the page takes the new set and
\* setHeaders.handle returns its transcript (`replaced` notes the set the
\* new one took the place of), or the call fails and the handler ends in
\* its error.
SetExtraHTTPHeadersSettles(ok) ==
    /\ Delivered
    /\ \E i \in 1..Len(pending) :
        /\ pending[i].call = "setExtraHTTPHeaders"
        /\ LET c == pending[i] IN
           IF ok
           THEN /\ extraHeaders' = PageSetExtraHTTPHeaders(extraHeaders, c.params.headers)
                /\ lastHeaders' = c.params.headers
                /\ event' = [kind |-> "result", tool |-> HEADERS, args |-> c.args,
                             result |-> "ok", value |-> ToolResult(setHeadersCode(c.params)),
                             cause |-> "none", replaced |-> extraHeaders]
           ELSE /\ event' = ResultEvent(HEADERS, c.args, "error", <<>>, "setExtraHTTPHeaders")
                /\ UNCHANGED <<extraHeaders, lastHeaders>>
        /\ pending' = Remove(pending, i)
    /\ UNCHANGED <<routes, registered>>

\* ------------------------------------------------------------ requests
\* The page issues a request: it carries the extra headers and is answered
\* by the routing table.
Request(url, reqMethod) ==
    /\ Delivered
    /\ LET d == Dispatch(routes, url, reqMethod) IN
        event' = [kind |-> "request", url |-> url, method |-> reqMethod,
                  extraHeaders |-> extraHeaders, ran |-> d.ran,
                  outcome |-> d.outcome, cause |-> "none"]
    /\ UNCHANGED <<routes, extraHeaders, pending, lastHeaders, registered>>

\* The output of a step reaches its receiver.
Deliver ==
    /\ ~Delivered
    /\ event' = NoEvent
    /\ UNCHANGED <<routes, extraHeaders, pending, lastHeaders, registered>>

Tools == {MOCK, CLEAR, HEADERS}

Next ==
    \/ \E tool \in Tools : \E a \in ToolArgs(tool) : Refuse(tool, a)
    \/ \E tool \in Tools : \E a \in ToolArgs(tool) : EnsureTabFails(tool, a)
    \/ \E a \in MockArgs : mockApiHandle(a)
    \/ \E a \in ClearArgs : clearMockApiHandle(a)
    \/ \E a \in HeadersArgs : setHeadersHandle(a)
    \/ \E ok \in BOOLEAN : RouteSettles(ok)
    \/ \E ok \in BOOLEAN : UnrouteSettles(ok)
    \/ \E ok \in BOOLEAN : SetExtraHTTPHeadersSettles(ok)
    \/ \E url \in RequestUrls, m \in RequestMethods : Request(url, m)
    \/ Deliver

Spec == Init /\ [][Next]_vars

\* ------------------------------------------------------------- claims
Fulfilled(r) ==
    [kind |-> "fulfill", status |-> r.status, contentType |-> r.contentType,
     body |-> r.body, headers |-> r.headers]
Continued == [kind |-> "continue"]

\* C1: a request handed to the interceptor of a rule whose method is set is
\* fulfilled with the rule's status, content type, body and headers when
\* the request's method equals the rule's, and proceeds unmodified when it
\* differs.
C1_MethodRuleDecides ==
    (event.kind = "request" /\ event.ran /= <<>> /\ event.ran[1].method /= None)
    => event.outcome = (IF Some(event.method) = event.ran[1].method
                        THEN Fulfilled(event.ran[1]) ELSE Continued)

C1_Witness ==
    /\ event.kind = "request"
    /\ event.method = "GET"
    /\ event.ran /= <<>>
    /\ event.ran[1].method = Some("GET")
    /\ event.outcome = Fulfilled(event.ran[1])
    /\ event.outcome.status = Num(200, FALSE)
    /\ event.outcome.body = Body

\* C2: a request handed to the interceptor of a rule registered with no
\* method is fulfilled with the rule's response, whatever its method.
C2_NoMethodMatchesAny ==
    (event.kind = "request" /\ event.ran /= <<>> /\ event.ran[1].method = None)
    => event.outcome = Fulfilled(event.ran[1])

\* C3: the step in which clearMock(P) does its page work leaves no
\* registration for P in the routing table, for every pattern P.
C3_ClearLeavesNoInterception ==
    [][\A a \in ClearArgs : clearMockApiHandle(a) => Count(routes', a.url[1]) = 0]_vars

\* C4: a clear-mock-api call with no url ends in success, with the
\* transcript that names the absent pattern.
C4_ClearWithoutUrlSucceeds ==
    (event.kind = "result" /\ event.tool = CLEAR /\ event.args.url = None)
    => (event.result = "ok" /\ event.value.code = clearMockApiCode([url |-> None]))

\* C5: clearMock(P) for a pattern P with no registration leaves the routing
\* table and the header set as they are and raises no error: the handler
\* step yields no error, and once its unroute call settles without a page
\* failure the call returns its transcript.
C5_ClearUnregisteredIsNoOp ==
    [][/\ \A a \in ClearArgs :
            (Count(routes, Interp(a.url)) = 0 /\ clearMockApiHandle(a))
            => (/\ routes' = routes
                /\ extraHeaders' = extraHeaders
                /\ event'.kind /= "unhandledRejection"
                /\ (event'.kind = "result" => event'.result = "ok"))
       /\ UnrouteSettles(TRUE)
            => (/\ event'.kind = "result"
                /\ event'.result = "ok"
                /\ event'.value = ToolResult(clearMockApiCode([url |-> event'.args.url]))
                /\ routes' = routes
                /\ extraHeaders' = extraHeaders)]_vars

C5_Witness ==
    /\ event.kind = "result"
    /\ event.tool = CLEAR
    /\ event.args.url = Some(OtherUrl)
    /\ event.result = "ok"
    /\ Len(routes) = 2

\* What C6 says the schema refuses.
ClaimedRefused(a) ==
    \/ a.status /= None /\ (a.status[1].half \/ a.status[1].whole < StatusMin
                            \/ a.status[1].whole > StatusMax)
    \/ a.method /= None /\ a.method[1] \notin Verbs
    \/ a.url = Some("")

\* C6: every browser_mock_api input with a status outside [100,599] or not
\* an integer, a method outside the verb set or an empty url ends in a
\* validation error, and none of them reaches the routing table.
C6_BadInputsRefused ==
    /\ (event.kind = "result" /\ event.tool = MOCK /\ event.cause = "none"
        /\ ClaimedRefused(event.args))
       => event.result = "validation_error"
    /\ \A i \in 1..Len(routes) : routes[i].url /= "" /\ ~routes[i].status.half

\* C7: the page's extra headers are exactly the map of the most recent
\* setGlobalHeaders call that completed (none before the first), and every
\* request carries exactly that map.
C7_HeadersAreLastMap ==
    /\ extraHeaders = lastHeaders
    /\ (event.kind = "request" => event.extraHeaders = lastHeaders)
    /\ (event.kind = "result" /\ event.tool = HEADERS /\ event.result = "ok")
       => extraHeaders = event.args.headers[1]

C7_Witness ==
    /\ event.kind = "result"
    /\ event.tool = HEADERS
    /\ event.result = "ok"
    /\ event.args.headers = Some(EmptyMap)
    /\ event.replaced = ("Authorization" :> "Bearer token")
    /\ extraHeaders = EmptyMap

\* C8: the routing table holds at most one registration per urlPattern,
\* a registration of an already registered pattern taking the place of the
\* earlier one (stated for the non-empty patterns, which every reading of
\* the input validation admits).
C8_OneRegistrationPerPattern == \A p \in Patterns \ {""} : Count(routes, p) <= 1

\* C9: a failed ensureTab or page call always ends the operation in an
\* error delivered to its caller, never beside a success result.
C9_FailuresReachTheCaller ==
    event.cause /= "none" => (event.kind = "result" /\ event.result = "error")

\* C10: among the rules registered for one urlPattern the last registered
\* decides: a request the pattern matches is handled, no earlier rule of the
\* pattern is run, and when the pattern's rule answers, the answer is the
\* last rule's (fulfilled if its method matches, passed through otherwise).
C10_LastRegistrationWins ==
    event.kind = "request" =>
        \A p \in Patterns :
            (registered[p] /= <<>> /\ UrlMatches(p, event.url)) =>
                LET last == registered[p][Len(registered[p])] IN
                /\ event.ran /= <<>>
                /\ \A i \in 1..Len(event.ran) : event.ran[i].url = p => event.ran[i] = last
                /\ event.ran[1].url = p =>
                       event.outcome = (IF Some(event.method) = last.method
                                        THEN Fulfilled(last) ELSE Continued)

C10_Witness ==
    /\ Len(registered[UsersUrl]) = 2
    /\ registered[UsersUrl][1].method = Some("GET")
    /\ registered[UsersUrl][2].method = None
    /\ event.kind = "request"
    /\ event.url = UsersUrl
    /\ event.method = "GET"
    /\ event.ran = <<registered[UsersUrl][2]>>
    /\ event.outcome = Continued

====
